---------------------------- MODULE Spec2Model ----------------------------
(***************************************************************************)
(* Model of the RSS scraper pipeline of action-jackson/rss-scraper.        *)
(*                                                                         *)
(* The scraper's code is given in src/INITIAL.md (section 2.3, main.py)    *)
(* and in the implementation blueprint src/PRPs/rss-scraper-system.md      *)
(* (scrape_feed, process_content_links, fetch_js_content).  Where both     *)
(* define a function the blueprint is modelled; the functions the          *)
(* blueprint only names (resolve_redirects, clean_affiliate_params,        *)
(* add_affiliate_tags) take their bodies from INITIAL.md (resolve_url,     *)
(* clean_url, add_affiliate), and main is INITIAL.md's.  The content of an  *)
(* entry is what INITIAL.md's fetch_content(entry.link) returns, the only  *)
(* body given for the blueprint's extract_content_safely.  The run is      *)
(* sequential, as main and scrape_feed are: one request at a time.  A      *)
(* request is two steps, sent and returned, so that what is in flight is   *)
(* part of the state.  SpecLive adds the fairness of a running process;    *)
(* SpecRuns is resolve_url alone over successive runs of the process.      *)
(*                                                                         *)
(* The frontend is modelled from its TypeScript: the hook useDeals         *)
(* (SpecHook), DealGrid (SpecGrid) and DealCard (SpecCard).                *)
(*                                                                         *)
(* A URL is a sequence of tokens: a host, a path, the separators "?", "&"  *)
(* and "#", and query parameters "key=value".  urlparse, parse_qs,         *)
(* urlencode and urlunparse act on that sequence as the Python library     *)
(* acts on the string.                                                     *)
(***************************************************************************)
EXTENDS Integers, Sequences, FiniteSets, TLC

(***************************************************************************)
(* Bounds.                                                                 *)
(***************************************************************************)
MaxQuery == 2      \* query parameters of a generated URL
MaxFrag == 1       \* tokens of a generated URL's fragment
MaxRuns == 2       \* runs of the scraper, one after the other
MaxRequests == 1   \* calls of resolve_url for one URL in one run, when
                   \* resolve_url is checked alone
MaxTime == 5       \* how long the hook is followed, in units of retryDelay
MaxFetches == 5    \* requests for deals.json the hook starts
RetryAttempts == 2 \* opts.retryAttempts (the page passes 3)
MaxDeals == 3      \* deals handed to DealGrid
MaxLinks == 4      \* links handed to DealCard
MaxLinksPerCard == 3  \* the largest maxLinks a DealCard is rendered with

(***************************************************************************)
(* Tokens.                                                                 *)
(***************************************************************************)
Hosts == {"amazon.com", "amazon.ca", "shop.com"}
Paths == {"/p"}
Params == {"tag=old", "ref=xyz", "utm_content=c", "id=1", "id=2", "x=",
           "u=amazon.com"}
TagTokens == {"tag=mytag-20", "tag=mytagca-20"}
FragTokens == {"top", "reviews"}

\* The key of a query-parameter token.
Key(p) ==
  CASE p \in {"tag=old", "tag=mytag-20", "tag=mytagca-20"} -> "tag"
    [] p = "ref=xyz" -> "ref"
    [] p = "utm_content=c" -> "utm_content"
    [] p \in {"id=1", "id=2"} -> "id"
    [] p = "x=" -> "x"
    [] p = "u=amazon.com" -> "u"
    [] OTHER -> ""

\* A parameter with an empty value: parse_qs (keep_blank_values=False) drops it.
IsBlank(p) == p = "x="

\* The token's text has the domain as a substring.
TokenHas(tok, domain) ==
  CASE domain = "" -> TRUE
    [] domain = "amazon.com" -> tok \in {"amazon.com", "u=amazon.com"}
    [] OTHER -> tok = domain

\* Python's `domain in url` on the whole URL string.
InUrl(domain, url) == \E i \in 1..Len(url) : TokenHas(url[i], domain)

(***************************************************************************)
(* Configuration.                                                          *)
(***************************************************************************)
BAD_PARAMS == {"tag", "affid", "ref", "utm_source", "utm_medium", "utm_campaign"}

\* The dict AFFILIATE_TAGS in its insertion order.
AFFILIATE_TAGS ==
  << [domain |-> "amazon.com", tag |-> "tag=mytag-20"],
     [domain |-> "amazon.ca", tag |-> "tag=mytagca-20"] >>

(***************************************************************************)
(* urllib.parse on token sequences.                                        *)
(***************************************************************************)
\* Index of the first occurrence of tok in s, 0 when there is none.
FirstIndex(s, tok) ==
  IF \E i \in 1..Len(s) : s[i] = tok
  THEN CHOOSE i \in 1..Len(s) : s[i] = tok /\ \A j \in 1..(i-1) : s[j] # tok
  ELSE 0

\* urlparse: the fragment is split off at the first "#", then the query at
\* the first "?" of what precedes it.
urlparse(url) ==
  LET h == FirstIndex(url, "#")
      front == IF h = 0 THEN url ELSE SubSeq(url, 1, h - 1)
      frag == IF h = 0 THEN << >> ELSE SubSeq(url, h + 1, Len(url))
      q == FirstIndex(front, "?")
  IN [ base |-> IF q = 0 THEN front ELSE SubSeq(front, 1, q - 1),
       query |-> IF q = 0 THEN << >> ELSE SubSeq(front, q + 1, Len(front)),
       fragment |-> frag ]

IsParam(tok) == Key(tok) # ""

\* parse_qs: the "key=value" pieces between "&", blank values dropped, as a
\* dict: keys in order of first appearance, each with its values in order.
parse_qs(query) ==
  LET kept == SelectSeq(query, LAMBDA t : IsParam(t) /\ ~IsBlank(t))
      firstOfKey(i) == \A j \in 1..(i-1) : Key(kept[j]) # Key(kept[i])
      heads == SelectSeq([i \in 1..Len(kept) |-> i], firstOfKey)
  IN [ n \in 1..Len(heads) |->
         SelectSeq(kept, LAMBDA t : Key(t) = Key(kept[heads[n]])) ]

\* query.pop(bad, None) for every bad parameter.
pop_bad(dict, bad) == SelectSeq(dict, LAMBDA vals : Key(vals[1]) \notin bad)

RECURSIVE Flatten(_)
Flatten(dict) ==
  IF dict = << >> THEN << >> ELSE Head(dict) \o Flatten(Tail(dict))

\* urlencode(query, doseq=True): key=value pairs joined by "&".
urlencode(dict) ==
  LET ps == Flatten(dict)
  IN [ i \in 1..(IF ps = << >> THEN 0 ELSE 2 * Len(ps) - 1) |->
         IF i % 2 = 1 THEN ps[(i + 1) \div 2] ELSE "&" ]

\* urlunparse: an empty query loses its "?", an empty fragment its "#".
urlunparse(parts) ==
  parts.base
    \o (IF parts.query = << >> THEN << >> ELSE <<"?">> \o parts.query)
    \o (IF parts.fragment = << >> THEN << >> ELSE <<"#">> \o parts.fragment)

clean_url_with(url, bad) ==
  LET parsed == urlparse(url)
      query == pop_bad(parse_qs(parsed.query), bad)
  IN urlunparse([parsed EXCEPT !.query = urlencode(query)])

clean_url(url) == clean_url_with(url, BAD_PARAMS)

\* The last rule of AFFILIATE_TAGS whose domain is in the URL, 0 if none.
LastMatchingRule(url) ==
  IF \E i \in 1..Len(AFFILIATE_TAGS) : InUrl(AFFILIATE_TAGS[i].domain, url)
  THEN CHOOSE i \in 1..Len(AFFILIATE_TAGS) :
         /\ InUrl(AFFILIATE_TAGS[i].domain, url)
         /\ \A j \in (i+1)..Len(AFFILIATE_TAGS) : ~InUrl(AFFILIATE_TAGS[j].domain, url)
  ELSE 0

\* The first rule of AFFILIATE_TAGS whose domain is in the URL, 0 if none:
\* the loop over AFFILIATE_TAGS.items() returns at the first match.
MatchingRule(url) ==
  IF \E i \in 1..Len(AFFILIATE_TAGS) : InUrl(AFFILIATE_TAGS[i].domain, url)
  THEN CHOOSE i \in 1..Len(AFFILIATE_TAGS) :
         /\ InUrl(AFFILIATE_TAGS[i].domain, url)
         /\ \A j \in 1..(i-1) : ~InUrl(AFFILIATE_TAGS[j].domain, url)
  ELSE 0

add_affiliate(url) ==
  LET r == MatchingRule(url)
      base == clean_url(url)
      sep == IF \E i \in 1..Len(base) : base[i] = "?" THEN "&" ELSE "?"
  IN IF r # 0 THEN base \o <<sep, AFFILIATE_TAGS[r].tag>> ELSE base


\* A parameter-free URL the pydantic HttpUrl type accepts: it starts with a host.
IsHttpUrl(url) ==
  /\ url # << >>
  /\ url[1] \notin {"?", "&", "#"} \cup Paths \cup Params \cup TagTokens \cup FragTokens

\* The network name of a final URL ("unknown" unless a rule's domain is in it).
detect_affiliate_network(url) ==
  IF MatchingRule(url) # 0 THEN "amazon" ELSE "unknown"

\* The rewriting of one resolved URL: clean, tag, compare.
classify(resolved_url) ==
  LET clean == clean_url(resolved_url)
      final_url == add_affiliate(clean)
  IN [ final |-> final_url,
       is_affiliate |-> final_url # clean,
       network |-> detect_affiliate_network(final_url) ]

(***************************************************************************)
(* The URLs the rewriting is checked on: host, optional path, optional     *)
(* query of up to MaxQuery parameters, optional fragment of up to MaxFrag  *)
(* tokens.                                                                 *)
(***************************************************************************)
JoinAmp(ps) ==
  [ i \in 1..(IF ps = << >> THEN 0 ELSE 2 * Len(ps) - 1) |->
      IF i % 2 = 1 THEN ps[(i + 1) \div 2] ELSE "&" ]

QueryParts ==
  { << >> } \cup
  { <<"?">> \o JoinAmp(ps) : ps \in UNION { [1..n -> Params] : n \in 0..MaxQuery } }

FragParts ==
  { << >> } \cup
  { <<"#">> \o fs : fs \in UNION { [1..n -> FragTokens] : n \in 0..MaxFrag } }

URLs ==
  { <<h>> \o p \o q \o f :
      h \in Hosts, p \in { << >> } \cup { <<x>> : x \in Paths },
      q \in QueryParts, f \in FragParts }

(***************************************************************************)
(* State.                                                                  *)
(***************************************************************************)
VARIABLES
  url,            \* the URL handed to the rewriting
  cls,            \* the successive results of classify, starting from url
  pc,             \* where the run is: Idle, FetchingSources, ProcessingItems,
                  \* Assembling, Writing, Written, Failed
  failure,        \* what ended the run in Failed: none, the feed outcome that
                  \* made scrape_feed raise, open, write
  use_playwright, \* the USE_PLAYWRIGHT flag of the configuration
  si,             \* index of the source main is at
  ei,             \* index of the entry scrape_feed is at
  ai,             \* index of the anchor being processed, 0 before the content fetch
  anchors,        \* the hrefs found in the current entry's content
  links,          \* the ProcessedLinks of the current entry so far
  results,        \* scrape_feed's result list for the current source
  all_items,      \* main's list of all items
  status,         \* per source: pending, ok, failed
  log,            \* what the logger recorded: <<level, source index>>
  launched,       \* headless browsers launched so far
  requests,       \* per URL: how many times resolve_url was asked for it
  netCalls,       \* per URL: how many client.get calls were made for it
  answers,        \* per URL: the resolved URLs resolve_url returned for it
  file,           \* what a reader of OUTPUT_FILE sees
  written,        \* how many items json.dump has put into the file
  inflight,       \* the network operations sent and not yet returned from,
                  \* each with what the network will answer
  browsers,       \* headless browsers open
  run,            \* the number of the run (of the process that runs main)
  past,           \* per URL: the resolved URLs earlier runs got for it
  mounted,        \* the component that calls useDeals: new (rendered, its
                  \* effects not yet run), yes, gone (unmounted)
  deals,          \* useDeals: the state deals
  loading,        \* useDeals: the state loading
  error,          \* useDeals: the state error
  lastUpdated,    \* useDeals: the state lastUpdated, << >> for null
  retryTimeoutRef,    \* the timeout the ref holds, 0 for null
  refreshIntervalRef, \* whether the ref holds the interval
  abortControllerRef, \* the request whose controller the ref holds, 0 for null
  retryCountRef,      \* retryCountRef.current
  timeouts,       \* the timeouts set and neither fired nor cleared
  interval,       \* the interval timer: whether it is set, and when it is due
  fetches,        \* the requests for deals.json that have not settled
  now,            \* the time
  fetchCount,     \* how many requests the hook has started
  retries,        \* per non-retry fetch: the retry fetches started for it
  lastSettled,    \* the request that settled last, and how
  lastGood,       \* the data of the last response the hook accepted
  props,          \* the props DealGrid is rendered with
  grid,           \* what DealGrid rendered, << >> before it has
  cardProps,      \* the props DealCard is rendered with
  card            \* what DealCard rendered, << >> before it has

urlVars == << url, cls >>

runVars ==
  << pc, failure, use_playwright, si, ei, ai, anchors, links, results,
     all_items, status, log, launched, requests, netCalls, answers, file,
     written >>

netVars == << inflight, browsers >>

procVars == << run, past >>

backVars == << urlVars, runVars, netVars, procVars >>

hookState == << deals, loading, error, lastUpdated >>

hookRefs ==
  << retryTimeoutRef, refreshIntervalRef, abortControllerRef, retryCountRef >>

hookLog == << lastSettled, lastGood >>

hookVars ==
  << hookState, hookRefs, mounted, timeouts, interval, fetches, now, fetchCount,
     retries, hookLog >>

viewVars == << props, grid, cardProps, card >>

frontVars == << hookVars, viewVars >>

vars == << backVars, frontVars >>

(***************************************************************************)
(* The run's configuration and the world it scrapes.                       *)
(***************************************************************************)
FEED_SOURCES == << <<"blog.com", "/feed">>, <<"news.com", "/feed">> >>

ShortLink == <<"short.ly", "/p">>
AmazonTagged == <<"amazon.com", "/p", "?", "tag=old", "&", "ref=xyz">>
SelfLink == <<"blog.com", "/p">>
ShopLink == <<"shop.com", "/p", "?", "ref=xyz">>
FragLink == <<"amazon.com", "/p", "#", "top">>
RelativeLink == <<"/p">>

MovedTarget == <<"shop.com", "/p">>

Hrefs == {ShortLink, SelfLink, ShopLink, FragLink, RelativeLink}

\* Where the redirect chain of a URL ends.  The short link is pointed at
\* another page between one run and the next.
Location(u) ==
  IF u = ShortLink THEN (IF run % 2 = 1 THEN AmazonTagged ELSE MovedTarget) ELSE u

\* The entries each feed serves; page is the hrefs of the anchors of the
\* entry's page, in document order.
FeedEntries(i) ==
  IF i = 1
  THEN << [title |-> "blog-1", link |-> <<"blog.com", "/1">>,
           page |-> <<ShortLink, SelfLink, ShopLink>>],
          [title |-> "blog-2", link |-> <<"blog.com", "/2">>,
           page |-> <<ShortLink, RelativeLink>>] >>
  ELSE << [title |-> "news-1", link |-> <<"news.com", "/1">>,
           page |-> <<FragLink, SelfLink>>] >>

\* The snapshot the previous run left in OUTPUT_FILE.
PrevSnapshot ==
  << [title |-> "old-1", link |-> <<"blog.com", "/0">>, processed_links |-> << >>] >>

FeedOutcomes == {"ok", "bozo", "empty", "request_error", "http_error"}
ContentOutcomes == {"html", "no_html", "error"}
RenderOutcomes == {"rendered", "render_failed"}
LaunchOutcomes == {"launched", "launch_failed"}

(***************************************************************************)
(* The functions of the scraper.                                           *)
(***************************************************************************)
\* urlparse(feed_url).netloc
netloc(feed_url) == IF IsHttpUrl(feed_url) THEN feed_url[1] ELSE ""

\* An httpx client without a timeout (timeout=None).
client_no_timeout == [follow_redirects |-> TRUE, timeout |-> 0]

\* client = httpx.Client(follow_redirects=True, timeout=10); timeout 0 stands
\* for no timeout.
client == [follow_redirects |-> TRUE, timeout |-> 10]

\* What client.get can do for a URL: answer, or raise httpx.RequestError for
\* a network failure, a timeout or too many redirects; a URL without scheme
\* and host raises before anything is sent.  Without a timeout a request may
\* never return.
GetOutcomes(u) ==
  IF IsHttpUrl(u)
  THEN {"ok", "network_error", "too_many_redirects"}
         \cup (IF client.timeout = 0 THEN {"never"} ELSE {"timeout"})
  ELSE {"unsupported_protocol"}

\* The outcomes of a request to the network that did not answer.
NetworkFailures == {"network_error", "timeout", "too_many_redirects"}

\* resolve_url without its try/except: nothing comes back when the request raises.
resolve_url_unguarded(u, outcome) == IF outcome = "ok" THEN Location(u) ELSE << >>

\* resolve_url in front of a table of resolved URLs that outlives the run.
resolve_url_remembered(u, outcome) ==
  IF past[u] # {} THEN CHOOSE r \in past[u] : TRUE
  ELSE IF outcome = "ok" THEN Location(u) ELSE u

\* resolve_url: the URL the redirects end at, the URL itself when the request raises.
resolve_url(u, outcome) == IF outcome = "ok" THEN Location(u) ELSE u

\* The next request sent without waiting for the one before.
not_awaited(ops) == TRUE

\* A call of the client blocks (is awaited): the caller sends its next
\* request once the one it sent has returned.
awaited(ops) == ops = {}

\* A fallback that does not look at the flag.
falls_back_always(outcome) == outcome # "html"

\* fetch_content's except branch: a render is tried when the GET gave no
\* HTML and USE_PLAYWRIGHT is set.
falls_back(outcome) == outcome # "html" /\ use_playwright

\* browser.close()
close_browser(n) == IF n > 0 THEN n - 1 ELSE 0

\* A playwright started outside a with block: nothing is stopped on the way out.
exit_playwright_unscoped(n) == n

\* Leaving the `with sync_playwright() as p` block, by return or by
\* exception: playwright is stopped, which closes the browsers launched
\* through p.
exit_playwright(n) == 0

\* fetch_js_content: the rendered page, "" when disabled or when rendering fails.
fetch_js_content(entry, render) ==
  IF use_playwright /\ render = "rendered" THEN entry.page ELSE << >>

\* fetch_content: the page when the GET answers HTML, else the fallback.
fetch_content(entry, outcome, render) ==
  IF outcome = "html" THEN entry.page ELSE fetch_js_content(entry, render)

\* A skip test that compares for equality instead of testing containment.
is_internal_exact(rss_domain, original_url) == original_url = <<rss_domain>>

\* The skip test of process_content_links: `rss_domain in original_url`.
is_internal(rss_domain, original_url) == InUrl(rss_domain, original_url)

\* The ProcessedLink built for an anchor.
make_link(original_url, resolved_url) ==
  LET c == classify(resolved_url)
  IN [ original |-> original_url, resolved |-> resolved_url, final |-> c.final,
       is_affiliate |-> c.is_affiliate, network |-> c.network ]

\* pydantic's validation of the three HttpUrl fields.
link_is_valid(l) == IsHttpUrl(l.original) /\ IsHttpUrl(l.resolved) /\ IsHttpUrl(l.final)

\* links.append(processed_link)
append_link(ls, l) == Append(ls, l)

\* results.insert(0, feed_item) in place of results.append(feed_item).
prepend_result(rs, item) == <<item>> \o rs

\* results.append(feed_item)
append_result(rs, item) == Append(rs, item)

\* main's comprehension: the items of each feed, feed after feed.
extend_items(items, rs) == items \o rs

\* Whether scrape_feed raises for what the feed request gave.
feed_raises(outcome) == outcome \in {"empty", "request_error", "http_error"}

(***************************************************************************)
(* The frontend: the page (pages/index.tsx) calls the hook useDeals and    *)
(* hands its result to DealGrid, which renders a DealCard per deal.        *)
(*                                                                         *)
(* A text (a title, a summary, a search term, a network name) is a         *)
(* sequence of characters, so that trim, toLowerCase and includes are      *)
(* computed as JavaScript computes them.  Time is counted in units of      *)
(* opts.retryDelay (1000 ms).                                              *)
(***************************************************************************)
\* null and undefined, where JavaScript has a string or nothing.
Null == "<null>"
Undefined == "<undefined>"

\* A JSON value that is not a string, where a text is expected.
NotAString == << "<not a string>" >>

Lower(c) == CASE c = "A" -> "a" [] c = "Z" -> "z" [] OTHER -> c

toLowerCase(s) == [k \in 1..Len(s) |-> Lower(s[k])]

RECURSIVE trimStart(_)
trimStart(s) ==
  IF s # << >> /\ Head(s) = " " THEN trimStart(Tail(s)) ELSE s

RECURSIVE trimEnd(_)
trimEnd(s) ==
  IF s # << >> /\ s[Len(s)] = " " THEN trimEnd(SubSeq(s, 1, Len(s) - 1)) ELSE s

trim(s) == trimEnd(trimStart(s))

includes(s, t) ==
  \E i \in 0..(Len(s) - Len(t)) : SubSeq(s, i + 1, i + Len(t)) = t

\* The texts of the model.
Word(a, b) == << a, b >>
Blank == << " " >>

\* new Date(published).getTime(), in days; NaN for what is no date.
NaN == -1
getTime(published) ==
  CASE published = "2024-01-01" -> 1
    [] published = "2024-01-02" -> 2
    [] published = "Jan 2, 2024" -> 2
    [] published = "2024-01-03" -> 3
    [] OTHER -> NaN

isNaN(t) == t = NaN

\* ProcessedLinks as deals.json holds them.
AffLink(n) ==
  [original |-> "o", resolved |-> "r", final |-> "f", is_affiliate |-> TRUE,
   network |-> n]
PlainLink ==
  [original |-> "o", resolved |-> "r", final |-> "r", is_affiliate |-> FALSE,
   network |-> << "u", "n" >>]
\* An entry of processed_links whose network is not a string.
BrokenLink ==
  [original |-> "o", resolved |-> "r", final |-> "f", is_affiliate |-> TRUE,
   network |-> NotAString]

Amazon == << "a", "z" >>
Ebay == << "e", "b" >>

(***************************************************************************)
(* useDeals.ts: validateAndTransformDeal.                                  *)
(***************************************************************************)
IsString(v) == v # NotAString

\* The filter of processed_links: every field has its type.
link_is_wellformed(linkData) ==
  /\ linkData.original # Undefined
  /\ linkData.resolved # Undefined
  /\ linkData.final # Undefined
  /\ linkData.is_affiliate \in BOOLEAN
  /\ IsString(linkData.network)

\* << >> for null (the deal is dropped), << deal >> for a deal.
validateAndTransformDeal(data) ==
  IF ~IsString(data.title) \/ trim(data.title) = << >> THEN << >>
  ELSE IF data.link = Undefined \/ data.link = "" THEN << >>
  ELSE << [title |-> trim(data.title),
           link |-> data.link,
           published |-> IF data.published \in {Undefined, ""} THEN Null
                         ELSE data.published,
           summary |-> IF IsString(data.summary) THEN trim(data.summary)
                       ELSE << >>,
           processed_links |->
             SelectSeq(data.processed_links, link_is_wellformed)] >>

\* data.map(validateAndTransformDeal).filter(deal => deal !== null)
RECURSIVE validDeals(_)
validDeals(data) ==
  IF data = << >> THEN << >>
  ELSE validateAndTransformDeal(Head(data)) \o validDeals(Tail(data))

(***************************************************************************)
(* DealGrid.tsx.                                                           *)
(***************************************************************************)
\* !x of JavaScript, for a string or null.
falsy(x) == x \in {Null, Undefined, ""}

\* !x for a text.
empty(x) == x = << >>

filteredDeals(deals_, searchTerm) ==
  IF trim(searchTerm) = << >> THEN deals_
  ELSE LET term == toLowerCase(searchTerm)
       IN  SelectSeq(deals_,
             LAMBDA deal :
               \/ includes(toLowerCase(deal.title), term)
               \/ includes(toLowerCase(deal.summary), term)
               \/ \E k \in 1..Len(deal.processed_links) :
                    includes(toLowerCase(deal.processed_links[k].network), term))

\* The comparator without its handling of invalid dates: a difference with
\* NaN is NaN, which sort takes for 0.
compare_unchecked(a, b) ==
  IF falsy(a.published) /\ falsy(b.published) THEN 0
  ELSE IF falsy(a.published) THEN 1
  ELSE IF falsy(b.published) THEN -1
  ELSE LET dateA == getTime(a.published)
           dateB == getTime(b.published)
       IN  IF isNaN(dateA) \/ isNaN(dateB) THEN 0 ELSE dateB - dateA

\* The comparator of sortedDeals.
compare(a, b) ==
  IF falsy(a.published) /\ falsy(b.published) THEN 0
  ELSE IF falsy(a.published) THEN 1
  ELSE IF falsy(b.published) THEN -1
  ELSE LET dateA == getTime(a.published)
           dateB == getTime(b.published)
       IN  IF isNaN(dateA) /\ isNaN(dateB) THEN 0
           ELSE IF isNaN(dateA) THEN 1
           ELSE IF isNaN(dateB) THEN -1
           ELSE dateB - dateA

\* Array.prototype.sort is stable: an element goes after those that do not
\* come after it.
RECURSIVE insert_sorted(_, _)
insert_sorted(sorted, x) ==
  IF sorted = << >> THEN << x >>
  ELSE IF compare(Head(sorted), x) <= 0
       THEN << Head(sorted) >> \o insert_sorted(Tail(sorted), x)
       ELSE << x >> \o sorted

RECURSIVE sort(_)
sort(s) ==
  IF s = << >> THEN << >>
  ELSE insert_sorted(sort(SubSeq(s, 1, Len(s) - 1)), s[Len(s)])

sortedDeals(deals_, searchTerm) == sort(filteredDeals(deals_, searchTerm))

\* The returns of DealGrid taken with the error test first.
choose_view_error_first(loading_, error_, n, searchTerm) ==
  IF ~falsy(error_) THEN "ErrorState"
  ELSE IF loading_ THEN "LoadingSkeleton"
  ELSE IF n = 0 /\ empty(searchTerm) THEN "NoDealsAvailable"
  ELSE IF n = 0 /\ ~empty(searchTerm) THEN "NoResultsFound"
  ELSE "Grid"

\* The returns of DealGrid, in their order; n is sortedDeals.length.
choose_view(loading_, error_, n, searchTerm) ==
  IF loading_ THEN "LoadingSkeleton"
  ELSE IF ~falsy(error_) THEN "ErrorState"
  ELSE IF n = 0 /\ empty(searchTerm) THEN "NoDealsAvailable"
  ELSE IF n = 0 /\ ~empty(searchTerm) THEN "NoResultsFound"
  ELSE "Grid"

\* What DealGrid renders: the view, and the deals it maps to DealCards.
DealGrid(p) ==
  LET sorted == sortedDeals(p.deals, p.searchTerm)
      v == choose_view(p.loading, p.error, Len(sorted), p.searchTerm)
  IN  [view |-> v, shown |-> IF v = "Grid" THEN sorted ELSE << >>]

(***************************************************************************)
(* DealCard (components/DealCard.tsx).                                     *)
(***************************************************************************)
\* links with no filter.
all_links(links_) == links_

affiliateLinks(links_) == SelectSeq(links_, LAMBDA link : link.is_affiliate)

\* s.slice(0, n), n >= 0
slice(s, n) == SubSeq(s, 1, IF n < Len(s) THEN n ELSE Len(s))

\* What DealCard renders in its links section: the affiliate links, the
\* number of the "+N more" indicator (0: no indicator), and whether the
\* link to the original article is there.
DealCard(p) ==
  LET aff == affiliateLinks(p.links)
      displayLinks == slice(aff, p.maxLinks)
      hasMoreLinks == Len(aff) > p.maxLinks
  IN  IF Len(displayLinks) > 0
      THEN [links |-> displayLinks,
            more |-> IF hasMoreLinks THEN Len(aff) - p.maxLinks ELSE 0,
            article |-> FALSE]
      ELSE [links |-> << >>, more |-> 0, article |-> ~falsy(p.originalLink)]

(***************************************************************************)
(* useDeals.ts: the hook.                                                  *)
(***************************************************************************)
\* The options.  Times are in units of retryDelay (1000 ms); the refresh
\* interval (300 units) is shortened, which loses no interleaving, since a
\* request may take any time; retryAttempts is a bound of the model.
DEFAULT_OPTIONS ==
  [refreshInterval |-> 3, retryAttempts |-> RetryAttempts, retryDelay |-> 1,
   enabled |-> TRUE]

opts == DEFAULT_OPTIONS

\* What deals.json holds: deals as the scraper wrote them, and what a
\* broken writer may have left.
RawDeal(t, p, ls) ==
  [title |-> t, link |-> "https://blog.com/p", published |-> p,
   summary |-> << >>, processed_links |-> ls]

Payload1 ==
  << RawDeal(<< "A", "b", " " >>, "2024-01-01", << AffLink(Amazon), BrokenLink >>),
     RawDeal(NotAString, "2024-01-02", << >>),
     RawDeal(Blank, "2024-01-02", << >>) >>

Payload2 == << RawDeal(<< "Z" >>, Undefined, << PlainLink >>) >>

\* What the server may answer to GET /data/deals.json.  arrives = FALSE:
\* fetch rejects (no network).
Answer(arrives, ok, contentType, isArray, data) ==
  [arrives |-> arrives, ok |-> ok, contentType |-> contentType,
   isArray |-> isArray, data |-> data]

Responses ==
  { Answer(FALSE, FALSE, Null, FALSE, << >>),
    Answer(TRUE, FALSE, "text/html", FALSE, << >>),
    Answer(TRUE, TRUE, "text/html", FALSE, << >>),
    Answer(TRUE, TRUE, "application/json", FALSE, << >>),
    Answer(TRUE, TRUE, "application/json", TRUE, Payload1),
    Answer(TRUE, TRUE, "application/json; charset=utf-8", TRUE, Payload2) }

\* contentType.includes('application/json')
is_json(contentType) ==
  contentType \in {"application/json", "application/json; charset=utf-8"}

\* The message of the error the try block throws for a response that was
\* not aborted; null if it throws nothing.
thrown(response) ==
  IF ~response.arrives THEN "Failed to fetch"
  ELSE IF ~response.ok THEN "HTTP error! status: 500"
  ELSE IF falsy(response.contentType) \/ ~is_json(response.contentType)
       THEN "Invalid response format - expected JSON"
  ELSE IF ~response.isArray THEN "Invalid data format - expected array of deals"
  ELSE Null

\* A setState of React: nothing for a component that was unmounted.
set(current, value) == IF mounted = "gone" THEN current ELSE value

\* fetchDeals with no abort of the request in flight.
abort_none(fs, ref) == fs

\* abortControllerRef.current.abort()
abort(fs, ref) ==
  { IF r.id = ref THEN [r EXCEPT !.aborted = TRUE] ELSE r : r \in fs }

\* The catch block that takes an AbortError for any error.
abort_error_unnoticed(r) == FALSE

\* err.name === 'AbortError': the request was aborted.
is_abort_error(r) == r.aborted

\* The catch block of useDealsLegacy: a failure empties the list.
deals_after_failure_legacy(d) == << >>

\* The catch block sets no deals.
deals_after_failure(d) == d

\* clearTimeout(retryTimeoutRef.current)
clearTimeout(ts, ref) == { t \in ts : t.id # ref }

\* The delay of the retry that follows the failure counted as retryCount.
backoff(retryCount) == opts.retryDelay * 2 ^ (retryCount - 1)

\* The finally block: loading after a fetch has ended.
finally_loading(isRetry, retryCount, current) ==
  IF ~isRetry \/ retryCount >= opts.retryAttempts THEN set(current, FALSE)
  ELSE current

(***************************************************************************)
(* Initial states.                                                         *)
(***************************************************************************)
RunInit ==
  /\ pc = "Idle"
  /\ failure = "none"
  /\ use_playwright \in BOOLEAN
  /\ si = 1
  /\ ei = 0
  /\ ai = 0
  /\ anchors = << >>
  /\ links = << >>
  /\ results = << >>
  /\ all_items = << >>
  /\ status = [i \in 1..Len(FEED_SOURCES) |-> "pending"]
  /\ log = {}
  /\ launched = 0
  /\ requests = [u \in Hrefs |-> 0]
  /\ netCalls = [u \in Hrefs |-> 0]
  /\ answers = [u \in Hrefs |-> {}]
  /\ file = [complete |-> TRUE, items |-> PrevSnapshot]
  /\ written = 0

NetInit ==
  /\ inflight = {}
  /\ browsers = 0

ProcInit ==
  /\ run = 1
  /\ past = [u \in Hrefs |-> {}]

\* The hook before its first effect has run: the initial values of useState
\* and useRef.
HookInit ==
  /\ mounted = "new"
  /\ deals = << >>
  /\ loading = FALSE
  /\ error = Null
  /\ lastUpdated = << >>
  /\ retryTimeoutRef = 0
  /\ refreshIntervalRef = FALSE
  /\ abortControllerRef = 0
  /\ retryCountRef = 0
  /\ timeouts = {}
  /\ interval = [active |-> FALSE, due |-> 0]
  /\ fetches = {}
  /\ now = 0
  /\ fetchCount = 0
  /\ retries = [l \in 1..MaxFetches |-> 0]
  /\ lastSettled = [id |-> 0, isRetry |-> FALSE, result |-> "none"]
  /\ lastGood = << >>

\* Nothing rendered yet.
ViewInit ==
  /\ props = [deals |-> << >>, loading |-> FALSE, error |-> Null,
              searchTerm |-> << >>]
  /\ grid = << >>
  /\ cardProps = [links |-> << >>, maxLinks |-> 3, originalLink |-> Undefined]
  /\ card = << >>

Init ==
  /\ url = << >>
  /\ cls = << >>
  /\ RunInit
  /\ NetInit
  /\ ProcInit
  /\ HookInit
  /\ ViewInit

(***************************************************************************)
(* The run: main calls scrape_feed for each source in turn, then writes.   *)
(* A call to the network is two steps: the request is sent, and the call   *)
(* returns with what the network answered.                                 *)
(***************************************************************************)
\* main starts on the first source.
Start ==
  /\ pc = "Idle"
  /\ pc' = "FetchingSources"
  /\ UNCHANGED << frontVars, urlVars, netVars, procVars >>
  /\ UNCHANGED << failure, use_playwright, si, ei, ai, anchors, links, results,
                  all_items, status, log, launched, requests, netCalls, answers,
                  file, written >>

\* scrape_feed sends the request for the feed.
RequestFeed ==
  /\ pc = "FetchingSources"
  /\ awaited(inflight)
  /\ \E outcome \in FeedOutcomes :
       inflight' = inflight \cup { [kind |-> "feed", outcome |-> outcome] }
  /\ UNCHANGED << frontVars, urlVars, runVars, browsers, procVars >>

\* The request returns and the feed is parsed.  A request error, an HTTP
\* error status and a feed without version or entries are logged and raised;
\* main does not catch, so the run ends.  A bozo feed is logged as a warning.
FetchFeed ==
  /\ pc = "FetchingSources"
  /\ \E op \in inflight :
       /\ op.kind = "feed"
       /\ inflight' = inflight \ {op}
       /\ IF feed_raises(op.outcome)
          THEN /\ pc' = "Failed"
               /\ failure' = op.outcome
               /\ status' = [status EXCEPT ![si] = "failed"]
               /\ log' = log \cup { <<"error", si>> }
               /\ UNCHANGED << ei, results >>
          ELSE /\ pc' = "ProcessingItems"
               /\ ei' = 1
               /\ results' = << >>
               /\ log' = IF op.outcome = "bozo"
                         THEN log \cup { <<"warning", si>> } ELSE log
               /\ UNCHANGED << failure, status >>
  /\ ai' = 0
  /\ UNCHANGED << frontVars, urlVars, browsers, procVars >>
  /\ UNCHANGED << use_playwright, si, anchors, links, all_items, launched,
                  requests, netCalls, answers, file, written >>

\* fetch_content sends the GET for the entry's page.
RequestContent ==
  /\ pc = "ProcessingItems"
  /\ ai = 0
  /\ awaited(inflight)
  /\ \E outcome \in ContentOutcomes :
       inflight' = inflight \cup { [kind |-> "content", outcome |-> outcome] }
  /\ UNCHANGED << frontVars, urlVars, runVars, browsers, procVars >>

\* The GET returns.  With HTML the anchors are those of the page; otherwise
\* the fallback launches a browser and sends it to the page, or the content
\* is empty.
FetchContent ==
  /\ pc = "ProcessingItems"
  /\ ai = 0
  /\ \E op \in inflight :
       /\ op.kind = "content"
       /\ IF falls_back(op.outcome)
          THEN \E l \in LaunchOutcomes :
                 IF l = "launched"
                 THEN /\ \E render \in RenderOutcomes :
                           inflight' = (inflight \ {op})
                                         \cup { [kind |-> "render", outcome |-> render] }
                      /\ browsers' = browsers + 1
                      /\ launched' = launched + 1
                      /\ UNCHANGED << anchors, ai, links >>
                 ELSE /\ inflight' = inflight \ {op}
                      /\ anchors' = << >>
                      /\ ai' = 1
                      /\ links' = << >>
                      /\ UNCHANGED << browsers, launched >>
          ELSE /\ inflight' = inflight \ {op}
               /\ \E render \in RenderOutcomes :
                    anchors' = fetch_content(FeedEntries(si)[ei], op.outcome, render)
               /\ ai' = 1
               /\ links' = << >>
               /\ UNCHANGED << browsers, launched >>
  /\ UNCHANGED << frontVars, urlVars, procVars >>
  /\ UNCHANGED << pc, failure, use_playwright, si, ei, results, all_items, status,
                  log, requests, netCalls, answers, file, written >>

\* The browser has rendered the page, or the navigation failed or timed out:
\* fetch_js_content returns the markup, or "" from its except branch.
RenderPage ==
  /\ pc = "ProcessingItems"
  /\ ai = 0
  /\ \E op \in inflight :
       /\ op.kind = "render"
       /\ inflight' = inflight \ {op}
       /\ anchors' = fetch_js_content(FeedEntries(si)[ei], op.outcome)
       /\ browsers' = exit_playwright(IF op.outcome = "rendered"
                                      THEN close_browser(browsers) ELSE browsers)
  /\ ai' = 1
  /\ links' = << >>
  /\ UNCHANGED << frontVars, urlVars, procVars >>
  /\ UNCHANGED << pc, failure, use_playwright, si, ei, results, all_items, status,
                  log, launched, requests, netCalls, answers, file, written >>

\* resolve_url sends the GET for an anchor that is not a link to the feed's
\* own domain.
RequestLink ==
  /\ pc = "ProcessingItems"
  /\ ai \in 1..Len(anchors)
  /\ ~is_internal(netloc(FEED_SOURCES[si]), anchors[ai])
  /\ awaited(inflight)
  /\ \E outcome \in GetOutcomes(anchors[ai]) :
       inflight' = inflight \cup { [kind |-> "link", outcome |-> outcome] }
  /\ UNCHANGED << frontVars, urlVars, runVars, browsers, procVars >>

\* One pass of the loop over the anchors: an internal link is skipped; for
\* any other the GET has returned and the link is built.
ProcessLink ==
  /\ pc = "ProcessingItems"
  /\ ai \in 1..Len(anchors)
  /\ LET original_url == anchors[ai]
     IN IF is_internal(netloc(FEED_SOURCES[si]), original_url)
        THEN UNCHANGED << links, requests, netCalls, answers, log, inflight >>
        ELSE \E op \in inflight :
               /\ op.kind = "link"
               /\ op.outcome # "never"
               /\ inflight' = inflight \ {op}
               /\ LET resolved_url == resolve_url(original_url, op.outcome)
                      l == make_link(original_url, resolved_url)
                  IN /\ requests' = [requests EXCEPT ![original_url] = @ + 1]
                     /\ netCalls' = [netCalls EXCEPT ![original_url] = @ + 1]
                     /\ answers' = [answers EXCEPT ![original_url] = @ \cup {resolved_url}]
                     /\ IF link_is_valid(l)
                        THEN /\ links' = append_link(links, l)
                             /\ log' = log
                        ELSE /\ links' = links
                             /\ log' = log \cup { <<"warning", si>> }
  /\ ai' = ai + 1
  /\ UNCHANGED << frontVars, urlVars, browsers, procVars >>
  /\ UNCHANGED << pc, failure, use_playwright, si, ei, anchors, results, all_items,
                  status, launched, file, written >>

\* The FeedItem of the entry is appended; after the last entry scrape_feed
\* returns and main goes on to the next source, or has all its items.
FinishItem ==
  /\ pc = "ProcessingItems"
  /\ ai = Len(anchors) + 1
  /\ LET entry == FeedEntries(si)[ei]
         item == [ title |-> entry.title, link |-> entry.link,
                   processed_links |-> links ]
         rs == append_result(results, item)
     IN /\ results' = rs
        /\ IF ei < Len(FeedEntries(si))
           THEN /\ ei' = ei + 1
                /\ UNCHANGED << pc, si, all_items, status >>
           ELSE /\ ei' = 0
                /\ all_items' = extend_items(all_items, rs)
                /\ status' = [status EXCEPT ![si] = "ok"]
                /\ IF si < Len(FEED_SOURCES)
                   THEN si' = si + 1 /\ pc' = "FetchingSources"
                   ELSE si' = si /\ pc' = "Assembling"
  /\ ai' = 0
  /\ anchors' = << >>
  /\ links' = << >>
  /\ UNCHANGED << frontVars, urlVars, netVars, procVars >>
  /\ UNCHANGED << failure, use_playwright, log, launched, requests, netCalls,
                  answers, file, written >>

\* open(OUTPUT_FILE, "w"): the file is truncated, or the open raises.
OpenOutput ==
  /\ pc = "Assembling"
  /\ \/ /\ pc' = "Writing"
        /\ file' = [complete |-> FALSE, items |-> << >>]
        /\ UNCHANGED failure
     \/ /\ pc' = "Failed"
        /\ failure' = "open"
        /\ UNCHANGED file
  /\ written' = 0
  /\ UNCHANGED << frontVars, urlVars, netVars, procVars >>
  /\ UNCHANGED << use_playwright, si, ei, ai, anchors, links, results, all_items,
                  status, log, launched, requests, netCalls, answers >>

\* json.dump puts the next item into the file, or the write raises.
WriteItem ==
  /\ pc = "Writing"
  /\ written < Len(all_items)
  /\ \/ /\ written' = written + 1
        /\ file' = [complete |-> FALSE, items |-> SubSeq(all_items, 1, written + 1)]
        /\ UNCHANGED << pc, failure >>
     \/ /\ pc' = "Failed"
        /\ failure' = "write"
        /\ UNCHANGED << file, written >>
  /\ UNCHANGED << frontVars, urlVars, netVars, procVars >>
  /\ UNCHANGED << use_playwright, si, ei, ai, anchors, links, results, all_items,
                  status, log, launched, requests, netCalls, answers >>

\* The closing bracket is written and the file closed.
CloseOutput ==
  /\ pc = "Writing"
  /\ written = Len(all_items)
  /\ pc' = "Written"
  /\ file' = [complete |-> TRUE, items |-> all_items]
  /\ UNCHANGED << frontVars, urlVars, netVars, procVars >>
  /\ UNCHANGED << failure, use_playwright, si, ei, ai, anchors, links, results,
                  all_items, status, log, launched, requests, netCalls, answers,
                  written >>

Next ==
  \/ Start
  \/ RequestFeed
  \/ FetchFeed
  \/ RequestContent
  \/ FetchContent
  \/ RenderPage
  \/ RequestLink
  \/ ProcessLink
  \/ FinishItem
  \/ OpenOutput
  \/ WriteItem
  \/ CloseOutput

Spec == Init /\ [][Next]_vars

\* ProcessLink can take a step: an anchor is left, and it is an internal
\* link or the GET for it can return.
ProcessLinkEnabled ==
  /\ pc = "ProcessingItems"
  /\ ai \in 1..Len(anchors)
  /\ \/ is_internal(netloc(FEED_SOURCES[si]), anchors[ai])
     \/ \E op \in inflight : op.kind = "link" /\ op.outcome # "never"

\* The process keeps running: a step that can be taken is taken (weak
\* fairness of every action; for ProcessLink with its enabling condition
\* written out).
Fairness ==
  /\ WF_vars(Start)
  /\ WF_vars(RequestFeed)
  /\ WF_vars(FetchFeed)
  /\ WF_vars(RequestContent)
  /\ WF_vars(FetchContent)
  /\ WF_vars(RenderPage)
  /\ WF_vars(RequestLink)
  /\ ([]<>(~ProcessLinkEnabled) \/ []<><<ProcessLink>>_vars)
  /\ WF_vars(FinishItem)
  /\ WF_vars(OpenOutput)
  /\ WF_vars(WriteItem)
  /\ WF_vars(CloseOutput)

SpecLive == Init /\ [][Next]_vars /\ Fairness

(***************************************************************************)
(* The rewriting alone: classify applied to a URL, then to its own result. *)
(***************************************************************************)
UrlInit ==
  /\ url \in URLs
  /\ cls = << >>
  /\ RunInit
  /\ NetInit
  /\ ProcInit
  /\ HookInit
  /\ ViewInit
  /\ use_playwright = FALSE

Classify ==
  /\ Len(cls) < 2
  /\ cls' = Append(cls, classify(IF cls = << >> THEN url ELSE cls[Len(cls)].final))
  /\ UNCHANGED << frontVars, url, runVars, netVars, procVars >>

UrlNext == Classify

SpecUrl == UrlInit /\ [][UrlNext]_vars

(***************************************************************************)
(* The resolver alone, over several runs: resolve_url called for the URLs  *)
(* of the pages, and the next run started as a new process.                *)
(***************************************************************************)
RunsInit ==
  /\ Init
  /\ use_playwright = FALSE

\* resolve_url(u): the GET is sent and returns.
Resolve ==
  /\ \E u \in Hrefs :
       /\ requests[u] < MaxRequests
       /\ \E outcome \in GetOutcomes(u) :
            /\ outcome # "never"
            /\ requests' = [requests EXCEPT ![u] = @ + 1]
            /\ netCalls' = [netCalls EXCEPT ![u] = @ + 1]
            /\ answers' = [answers EXCEPT ![u] = @ \cup {resolve_url(u, outcome)}]
  /\ UNCHANGED << frontVars, urlVars, netVars >>
  /\ UNCHANGED << pc, failure, use_playwright, si, ei, ai, anchors, links, results,
                  all_items, status, log, launched, file, written, run, past >>

\* The scheduler starts the scraper again: a new process, whose module state
\* is initialised anew.
NextRun ==
  /\ run < MaxRuns
  /\ run' = run + 1
  /\ past' = [u \in Hrefs |-> past[u] \cup answers[u]]
  /\ requests' = [u \in Hrefs |-> 0]
  /\ netCalls' = [u \in Hrefs |-> 0]
  /\ answers' = [u \in Hrefs |-> {}]
  /\ UNCHANGED << frontVars, urlVars, netVars >>
  /\ UNCHANGED << pc, failure, use_playwright, si, ei, ai, anchors, links, results,
                  all_items, status, log, launched, file, written >>

RunsNext ==
  \/ Resolve
  \/ NextRun

SpecRuns == RunsInit /\ [][RunsNext]_vars

(***************************************************************************)
(* The hook useDeals in a mounted component.  A fetch is two steps: the    *)
(* synchronous start of fetchDeals up to its await, and the rest of it     *)
(* once the request has settled.  An aborted request settles at once (its  *)
(* promise is rejected when abort() is called), before the next event is   *)
(* handled.  Timers fire when they are due.                                *)
(***************************************************************************)
\* fetchDeals(isRetry) up to "await fetch(...)"; chain is the non-retry
\* fetch whose failure the retry follows.
\* The event loop is free to handle the next event: no rejected promise
\* waits for its catch block.
Idle == \A r \in fetches : ~r.aborted

fetchDeals(isRetry, chain) ==
  /\ opts.enabled
  /\ Idle
  /\ fetchCount < MaxFetches
  /\ fetchCount' = fetchCount + 1
  /\ retries' = IF isRetry THEN [retries EXCEPT ![chain] = @ + 1] ELSE retries
  /\ fetches' = abort(fetches, abortControllerRef)
                  \cup {[id |-> fetchCount + 1, isRetry |-> isRetry,
                          load |-> IF isRetry THEN chain ELSE fetchCount + 1,
                          aborted |-> FALSE]}
  /\ abortControllerRef' = fetchCount + 1
  /\ IF isRetry
     THEN UNCHANGED << loading, error, retryCountRef >>
     ELSE /\ loading' = set(loading, TRUE)
          /\ error' = set(error, Null)
          /\ retryCountRef' = 0

\* The first effect: the initial fetch, and the refresh interval.
Mount ==
  /\ mounted = "new"
  /\ mounted' = "yes"
  /\ fetchDeals(FALSE, 0)
  /\ refreshIntervalRef' = (opts.refreshInterval > 0)
  /\ interval' = [active |-> opts.refreshInterval > 0,
                  due |-> now + opts.refreshInterval]
  /\ UNCHANGED << deals, lastUpdated, retryTimeoutRef, timeouts, now, hookLog >>
  /\ UNCHANGED << backVars, viewVars >>

\* refetch(), from the page's Refresh and Try Again buttons.
Refetch ==
  /\ mounted = "yes"
  /\ fetchDeals(FALSE, 0)
  /\ UNCHANGED << deals, lastUpdated, retryTimeoutRef, refreshIntervalRef,
                  mounted, timeouts, interval, now, hookLog >>
  /\ UNCHANGED << backVars, viewVars >>

\* The callback of setInterval.
IntervalTick ==
  /\ interval.active
  /\ interval.due <= now
  /\ fetchDeals(FALSE, 0)
  /\ interval' = [interval EXCEPT !.due = @ + opts.refreshInterval]
  /\ UNCHANGED << deals, lastUpdated, retryTimeoutRef, refreshIntervalRef,
                  mounted, timeouts, now, hookLog >>
  /\ UNCHANGED << backVars, viewVars >>

\* handleVisibilityChange, the tab having become visible.
VisibilityChange ==
  /\ mounted = "yes"
  /\ opts.enabled
  /\ lastUpdated # << >>
  /\ now - lastUpdated[1] > opts.refreshInterval
  /\ fetchDeals(FALSE, 0)
  /\ UNCHANGED << deals, lastUpdated, retryTimeoutRef, refreshIntervalRef,
                  mounted, timeouts, interval, now, hookLog >>
  /\ UNCHANGED << backVars, viewVars >>

\* The callback of a retry's setTimeout: fetchDeals(true).
RetryTimeout ==
  /\ \E t \in timeouts :
       /\ t.due <= now
       /\ timeouts' = timeouts \ {t}
       /\ fetchDeals(TRUE, t.load)
  /\ UNCHANGED << deals, lastUpdated, retryTimeoutRef, refreshIntervalRef,
                  mounted, interval, now, hookLog >>
  /\ UNCHANGED << backVars, viewVars >>

\* fetchDeals from its await on: the request r has settled, with the
\* response the server gave unless it was aborted.
Respond ==
  /\ \E r \in fetches, response \in Responses :
       LET errorMessage == thrown(response)
           result == IF is_abort_error(r) THEN "aborted"
                     ELSE IF errorMessage = Null THEN "ok" ELSE "failed"
       IN  /\ r.aborted \/ Idle
           /\ fetches' = fetches \ {r}
           /\ lastSettled' = [id |-> r.id, isRetry |-> r.isRetry, result |-> result]
           /\ IF result = "aborted"
              THEN /\ loading' = finally_loading(r.isRetry, retryCountRef, loading)
                   /\ UNCHANGED << deals, error, lastUpdated, retryCountRef,
                                   retryTimeoutRef, timeouts, lastGood >>
              ELSE IF result = "ok"
              THEN /\ deals' = set(deals, validDeals(response.data))
                   /\ error' = set(error, Null)
                   /\ lastUpdated' = set(lastUpdated, << now >>)
                   /\ retryCountRef' = 0
                   /\ loading' = finally_loading(r.isRetry, 0, loading)
                   /\ lastGood' = response.data
                   /\ UNCHANGED << retryTimeoutRef, timeouts >>
              ELSE IF retryCountRef < opts.retryAttempts
              THEN /\ retryCountRef' = retryCountRef + 1
                   /\ timeouts' = timeouts \cup
                        {[id |-> r.id, due |-> now + backoff(retryCountRef + 1),
                          load |-> r.load]}
                   /\ retryTimeoutRef' = r.id
                   /\ deals' = set(deals, deals_after_failure(deals))
                   /\ loading' =
                        finally_loading(r.isRetry, retryCountRef + 1, loading)
                   /\ UNCHANGED << error, lastUpdated, lastGood >>
              ELSE /\ error' = set(error, errorMessage)
                   /\ deals' = set(deals, deals_after_failure(deals))
                   /\ loading' = set(loading, FALSE)
                   /\ UNCHANGED << lastUpdated, retryCountRef, retryTimeoutRef,
                                   timeouts, lastGood >>
  /\ UNCHANGED << refreshIntervalRef, abortControllerRef, mounted, interval,
                  now, fetchCount, retries >>
  /\ UNCHANGED << backVars, viewVars >>

\* The component unmounts: cleanup; the second effect removes its listener.
Unmount ==
  /\ mounted = "yes"
  /\ Idle
  /\ mounted' = "gone"
  /\ timeouts' = IF retryTimeoutRef # 0 THEN clearTimeout(timeouts, retryTimeoutRef)
                 ELSE timeouts
  /\ retryTimeoutRef' = 0
  /\ interval' = IF refreshIntervalRef THEN [interval EXCEPT !.active = FALSE]
                 ELSE interval
  /\ refreshIntervalRef' = FALSE
  /\ fetches' = IF abortControllerRef # 0 THEN abort(fetches, abortControllerRef)
                ELSE fetches
  /\ abortControllerRef' = 0
  /\ UNCHANGED << hookState, retryCountRef, now, fetchCount, retries, hookLog >>
  /\ UNCHANGED << backVars, viewVars >>

\* Time passes, no timer being due.
Tick ==
  /\ mounted # "new"
  /\ Idle
  /\ now < MaxTime
  /\ \A t \in timeouts : t.due > now
  /\ interval.active => interval.due > now
  /\ now' = now + 1
  /\ UNCHANGED << hookState, hookRefs, mounted, timeouts, interval, fetches,
                  fetchCount, retries, hookLog >>
  /\ UNCHANGED << backVars, viewVars >>

HookNext ==
  \/ Mount
  \/ Refetch
  \/ IntervalTick
  \/ VisibilityChange
  \/ RetryTimeout
  \/ Respond
  \/ Unmount
  \/ Tick

HookSpecInit ==
  /\ Init
  /\ use_playwright = FALSE

SpecHook == HookSpecInit /\ [][HookNext]_vars

(***************************************************************************)
(* DealGrid alone: rendered with props the page can pass, and rendered     *)
(* again when the search term changes.                                     *)
(***************************************************************************)
\* Deals as the hook hands them on: validated.
DealPool ==
  validDeals(<<
    RawDeal(<< "A", "b" >>, "2024-01-01", << AffLink(Amazon) >>),
    RawDeal(<< "Z", "b" >>, "2024-01-02", << >>),
    RawDeal(<< "A", "z" >>, "Jan 2, 2024", << PlainLink >>),
    RawDeal(<< "b", "b" >>, "soon", << AffLink(Ebay) >>),
    RawDeal(<< "z", "z" >>, Undefined, << >>) >>)

DealLists ==
  UNION { [1..n -> { DealPool[k] : k \in 1..Len(DealPool) }] : n \in 0..MaxDeals }

SearchTerms ==
  { << >>, Blank, << "a" >>, << "Z" >>, << "q" >>, << "e", "b" >> }

ErrorMessages == { thrown(r) : r \in Responses } \ {Null}

GridInit ==
  /\ url = << >>
  /\ cls = << >>
  /\ RunInit
  /\ use_playwright = FALSE
  /\ NetInit
  /\ ProcInit
  /\ HookInit
  /\ props \in [deals : DealLists, loading : BOOLEAN,
                 error : {Null} \cup ErrorMessages, searchTerm : {<< >>}]
  /\ grid = << >>
  /\ cardProps = [links |-> << >>, maxLinks |-> 3, originalLink |-> Undefined]
  /\ card = << >>

\* The page renders DealGrid.
RenderGrid ==
  /\ grid = << >>
  /\ grid' = << DealGrid(props) >>
  /\ UNCHANGED << props, cardProps, card >>
  /\ UNCHANGED << backVars, hookVars >>

\* handleSearchChange and clearSearch: setSearchTerm, and the page renders
\* again.
SearchChange ==
  /\ grid # << >>
  /\ \E term \in SearchTerms :
       /\ term # props.searchTerm
       /\ props' = [props EXCEPT !.searchTerm = term]
       /\ grid' = << DealGrid(props') >>
  /\ UNCHANGED << cardProps, card >>
  /\ UNCHANGED << backVars, hookVars >>

GridNext ==
  \/ RenderGrid
  \/ SearchChange

SpecGrid == GridInit /\ [][GridNext]_vars

(***************************************************************************)
(* DealCard alone.                                                         *)
(***************************************************************************)
LinkLists ==
  UNION { [1..n -> {AffLink(Amazon), AffLink(Ebay), PlainLink}] : n \in 0..MaxLinks }

CardInit ==
  /\ url = << >>
  /\ cls = << >>
  /\ RunInit
  /\ use_playwright = FALSE
  /\ NetInit
  /\ ProcInit
  /\ HookInit
  /\ props = [deals |-> << >>, loading |-> FALSE, error |-> Null,
              searchTerm |-> << >>]
  /\ grid = << >>
  /\ cardProps \in [links : LinkLists, maxLinks : 1..MaxLinksPerCard,
                     originalLink : {Undefined, "https://blog.com/p"}]
  /\ card = << >>

RenderCard ==
  /\ card = << >>
  /\ card' = << DealCard(cardProps) >>
  /\ UNCHANGED << props, grid, cardProps >>
  /\ UNCHANGED << backVars, hookVars >>

CardNext == RenderCard

SpecCard == CardInit /\ [][CardNext]_vars

(***************************************************************************)
(* Properties of the run.                                                  *)
(***************************************************************************)
\* The items of a list of FeedItems that carry the given title.
WithTitle(items, t) == SelectSeq(items, LAMBDA it : it.title = t)

\* The originals of an item's links, in their order.
Originals(item) ==
  [ k \in 1..Len(item.processed_links) |-> item.processed_links[k].original ]

\* The titles of a list of FeedItems, in their order.
Titles(items) == [ k \in 1..Len(items) |-> items[k].title ]

RECURSIVE ConfiguredTitles(_)
\* The titles of the entries of sources i.., source after source, entry after entry.
ConfiguredTitles(i) ==
  IF i > Len(FEED_SOURCES) THEN << >>
  ELSE Titles(FeedEntries(i)) \o ConfiguredTitles(i + 1)

\* The hrefs of an entry's page that are neither self-links nor rejected, in
\* document order.
ExtractionOrder(i, e) ==
  SelectSeq(FeedEntries(i)[e].page,
            LAMBDA a : ~InUrl(netloc(FEED_SOURCES[i]), a) /\ IsHttpUrl(a))

\* The host of a URL has the domain as a substring.
HostContains(u, domain) == IsHttpUrl(u) /\ TokenHas(u[1], domain)

\* The source whose feed has an entry with the title (0 for none).
SourceOfTitle(t) ==
  IF \E i \in 1..Len(FEED_SOURCES) :
       \E e \in 1..Len(FeedEntries(i)) : FeedEntries(i)[e].title = t
  THEN CHOOSE i \in 1..Len(FEED_SOURCES) :
         \E e \in 1..Len(FeedEntries(i)) : FeedEntries(i)[e].title = t
  ELSE 0

\* The ProcessedLinks of a list of FeedItems, each with the source of its item.
LinksOf(items) ==
  UNION { { <<SourceOfTitle(items[n].title), items[n].processed_links[k]>> :
              k \in 1..Len(items[n].processed_links) } : n \in 1..Len(items) }

\* Every ProcessedLink the run holds, with the source it was produced from.
LinksHeld ==
  { <<si, links[k]>> : k \in 1..Len(links) }
    \cup LinksOf(results) \cup LinksOf(all_items) \cup LinksOf(file.items)

\* The run is over.
Ended == pc \in {"Written", "Failed"}

\* The run ended because scrape_feed raised for a source.
EndedByFeed == pc = "Failed" /\ failure \in FeedOutcomes

\* C1: every URL that was asked to be resolved in the run cost exactly one
\* network call, and every request for it got the same resolved URL.
RedirectCoalescing ==
  \A u \in Hrefs :
    requests[u] >= 1 => netCalls[u] = 1 /\ Cardinality(answers[u]) = 1

\* C2: a reader of the output file sees the complete previous snapshot or the
\* complete new one, and the previous one when the run has failed.
AtomicSnapshot ==
  /\ file.complete
  /\ file.items = PrevSnapshot \/ (pc = "Written" /\ file.items = all_items)
  /\ pc = "Failed" => file.items = PrevSnapshot

\* C3: a written snapshot lists the items in configured source order and feed
\* entry order, and each item's links in the order of extraction.
OrderingPreserved ==
  pc = "Written" =>
    /\ Titles(file.items) = ConfiguredTitles(1)
    /\ \A i \in 1..Len(FEED_SOURCES) : \A e \in 1..Len(FeedEntries(i)) :
         \A n \in 1..Len(file.items) :
           file.items[n].title = FeedEntries(i)[e].title =>
             Originals(file.items[n]) \in { << >>, ExtractionOrder(i, e) }

\* C3 witness: a snapshot was written with the items of both sources and an
\* item with two links.
OrderingWitness ==
  /\ pc = "Written"
  /\ Len(file.items) = 3
  /\ \E n \in 1..Len(file.items) : Len(file.items[n].processed_links) = 2

\* C4: a source that is unreachable or answers an error status does not end
\* the run; it is recorded as failed and contributes no item, and the snapshot
\* written has every item of the other sources.
SourceFailureIsolation ==
  /\ failure \notin {"request_error", "http_error"}
  /\ \A i \in 1..Len(FEED_SOURCES) :
       status[i] = "failed" =>
         /\ <<"error", i>> \in log
         /\ \A n \in 1..Len(all_items) : SourceOfTitle(all_items[n].title) # i
  /\ pc = "Written" =>
       \A i \in 1..Len(FEED_SOURCES) :
         status[i] = "ok" =>
           \A e \in 1..Len(FeedEntries(i)) :
             Len(WithTitle(file.items, FeedEntries(i)[e].title)) = 1

ItemsNeverDropped ==
  (pc = "Written" \/ EndedByFeed) =>
    \A i \in 1..Len(FEED_SOURCES) :
      status[i] = "ok" =>
        \A e \in 1..Len(FeedEntries(i)) :
          Len(WithTitle(file.items, FeedEntries(i)[e].title)) = 1

\* The phase of the run state machine a position of main belongs to.
Phase(p) == IF p = "Writing" THEN "Assembling" ELSE p

PhaseOrder ==
  { <<"Idle", "FetchingSources">>, <<"FetchingSources", "ProcessingItems">>,
    <<"ProcessingItems", "Assembling">>, <<"Assembling", "Written">>,
    <<"Assembling", "Failed">> }

\* C7: the run moves Idle, FetchingSources, ProcessingItems, Assembling in
\* that order and ends in Written or Failed, and it enters Failed only from
\* the writing of the snapshot.
RunStateMachine ==
  [][ Phase(pc') # Phase(pc) => <<Phase(pc), Phase(pc')>> \in PhaseOrder ]_vars

\* The two URLs differ at most in their query: same part before "?", same fragment.
SameButQuery(a, b) ==
  /\ urlparse(a).base = urlparse(b).base
  /\ urlparse(a).fragment = urlparse(b).fragment

\* C8: in every snapshot a link that is not an affiliate link has final equal
\* to resolved and network "unknown", and an affiliate link matched a rule
\* and has a final that differs from resolved only in the query.
ProcessedLinkInvariant ==
  \A sl \in (IF file.complete THEN LinksOf(file.items) ELSE {}) :
    LET l == sl[2]
    IN /\ ~l.is_affiliate => l.final = l.resolved /\ l.network = "unknown"
       /\ l.is_affiliate =>
            MatchingRule(l.resolved) # 0 /\ SameButQuery(l.final, l.resolved)

(***************************************************************************)
(* Properties of the rewriting.                                            *)
(***************************************************************************)
\* The query parameters of a URL, in their order.
QueryParams(u) == SelectSeq(urlparse(u).query, IsParam)

\* The first rule whose domain the URL's host contains, 0 if none.
HostRule(u) ==
  IF \E i \in 1..Len(AFFILIATE_TAGS) : HostContains(u, AFFILIATE_TAGS[i].domain)
  THEN CHOOSE i \in 1..Len(AFFILIATE_TAGS) :
         /\ HostContains(u, AFFILIATE_TAGS[i].domain)
         /\ \A j \in 1..(i-1) : ~HostContains(u, AFFILIATE_TAGS[j].domain)
  ELSE 0

\* The tracking parameters of the specification: tag, ref, affid and utm_*.
TrackingKeys == BAD_PARAMS \cup {"utm_content"}

\* C9: classify applied to the final URL of classify returns that URL.
RewritingIdempotent == Len(cls) = 2 => cls[2].final = cls[1].final

\* C10: for a URL whose host matches a rule, classify answers is_affiliate
\* and a final URL whose query has the rule's tag once and no other tracking
\* parameter.
Retagging ==
  (Len(cls) >= 1 /\ HostRule(url) # 0) =>
    LET tag == AFFILIATE_TAGS[HostRule(url)].tag
        q == QueryParams(cls[1].final)
    IN /\ cls[1].is_affiliate
       /\ Len(SelectSeq(q, LAMBDA t : t = tag)) = 1
       /\ \A k \in 1..Len(q) : Key(q[k]) \in TrackingKeys => q[k] = tag

(***************************************************************************)
(* Properties of degradation, of the fallback and of the operations in     *)
(* flight.                                                                 *)
(***************************************************************************)
\* The operations a step returns from.
Returned == inflight \ inflight'

\* The number of operations of a kind in flight.
InFlight(kind) == Cardinality({ op \in inflight : op.kind = kind })

\* The tokens of a URL.
Tokens(u) == { u[k] : k \in 1..Len(u) }

\* C11: a source whose feed parses to no entries, or is flagged malformed,
\* never ends the run: the run does not fail on it.
EmptyFeedDegrades == ~(pc = "Failed" /\ failure \in {"empty", "bozo"})

\* C12: when the request of resolve_url hits a network failure, a timeout or
\* the hop limit, the link is appended to the item's links with resolved
\* equal to original, and the loop goes on to the next anchor.
UnresolvedDegrades ==
  [][ \A op \in Returned :
        (op.kind = "link" /\ op.outcome \in NetworkFailures) =>
          /\ Len(links') = Len(links) + 1
          /\ SubSeq(links', 1, Len(links)) = links
          /\ links'[Len(links')].original = anchors[ai]
          /\ links'[Len(links')].resolved = anchors[ai]
          /\ pc' = "ProcessingItems"
          /\ anchors' = anchors
          /\ ai' = ai + 1 ]_vars

\* C12 witness: the snapshot written has the item blog-1 whose short link
\* could not be resolved, with that link as its own resolved URL, followed
\* by the next link of the page.
UnresolvedWitness ==
  /\ pc = "Written"
  /\ \E n \in 1..Len(file.items) :
       LET ls == file.items[n].processed_links
       IN /\ file.items[n].title = "blog-1"
          /\ Len(ls) = 2
          /\ ls[1].original = ShortLink
          /\ ls[1].resolved = ShortLink
          /\ ls[2].original = ShopLink

\* C13: no URL costs more than one network round-trip in a run.
RedirectCacheBound == \A u \in Hrefs : netCalls[u] <= 1

\* C14: a browser is launched only in a step that returns from a plain GET
\* without HTML, and only with the flag set; with the flag clear none is
\* ever launched or open; and a fetch that ends without HTML and without a
\* rendered page gives the empty content and goes on with the item.
FallbackGating ==
  [][ /\ launched' # launched =>
           /\ use_playwright
           /\ \E op \in Returned : op.kind = "content" /\ op.outcome # "html"
      /\ ~use_playwright => launched' = 0 /\ browsers' = 0
      /\ \A op \in Returned :
           ( \/ (op.kind = "content" /\ op.outcome # "html" /\ launched' = launched)
             \/ (op.kind = "render" /\ op.outcome # "rendered") ) =>
             /\ anchors' = << >>
             /\ ai' = 1
             /\ pc' = "ProcessingItems" ]_vars

\* C14 witness: with the flag clear the content fetch of an entry has ended
\* with the empty content, no browser launched.
GatingWitness ==
  /\ ~use_playwright
  /\ pc = "ProcessingItems"
  /\ ai = 1
  /\ anchors = << >>
  /\ launched = 0

\* C15: outside a render no browser is open: when the fetch of an entry's
\* content has returned, the browser it launched is closed.
BrowserLifecycle == InFlight("render") = 0 => browsers = 0

\* C15 witness: the first fetch launched a browser, the navigation failed,
\* the fetch has returned the empty content and no browser is open.
BrowserWitness ==
  /\ pc = "ProcessingItems"
  /\ si = 1
  /\ ei = 1
  /\ ai = 1
  /\ launched = 1
  /\ anchors = << >>
  /\ browsers = 0

\* C16: at most one feed fetch, one link resolution and one browser are in
\* flight or open at any time: no more than any maximum that can be
\* configured, the least of which is one.
BoundedConcurrency ==
  /\ InFlight("feed") <= 1
  /\ InFlight("link") <= 1
  /\ InFlight("content") + InFlight("render") <= 1
  /\ browsers <= 1

\* C16 witness: the second source is being processed, a link resolution is
\* in flight and a browser was launched before.
ConcurrencyWitness ==
  /\ si = 2
  /\ InFlight("link") = 1
  /\ launched >= 1

\* The rules whose domain is in the URL.
RulesIn(u) == { i \in 1..Len(AFFILIATE_TAGS) : InUrl(AFFILIATE_TAGS[i].domain, u) }

\* C18: when the domains of several rules are in a URL, the final URL
\* carries the tag of the first of them in the declared order and the tag of
\* no other, and the link is an affiliate link.
FirstMatchWins ==
  (Len(cls) >= 1 /\ Cardinality(RulesIn(url)) >= 2) =>
    LET first == CHOOSE i \in RulesIn(url) : \A j \in RulesIn(url) : i <= j
    IN /\ AFFILIATE_TAGS[first].tag \in Tokens(cls[1].final)
       /\ \A j \in RulesIn(url) \ {first} :
            AFFILIATE_TAGS[j].tag \notin Tokens(cls[1].final)
       /\ cls[1].is_affiliate

\* C18 witness: a URL on amazon.ca that names amazon.com in its query was
\* classified and carries the tag of the amazon.com rule.
FirstMatchWitness ==
  /\ Len(cls) >= 1
  /\ url[1] = "amazon.ca"
  /\ "u=amazon.com" \in Tokens(url)
  /\ "tag=mytag-20" \in Tokens(cls[1].final)

\* C19: in every run each call of resolve_url goes to the network, and what
\* it returns is where the URL leads in this run, or the URL itself: nothing
\* an earlier run resolved is read.
CachePerRun ==
  \A u \in Hrefs :
    /\ requests[u] = netCalls[u]
    /\ answers[u] \subseteq {u, Location(u)}

\* C19 witness: the short link was resolved in the first run, and resolved
\* again over the network in the second, to the page it leads to by then.
CachePerRunWitness ==
  /\ run = 2
  /\ AmazonTagged \in past[ShortLink]
  /\ netCalls[ShortLink] = 1
  /\ answers[ShortLink] = {MovedTarget}

\* C20: every run reaches Written or Failed.
RunTerminates == <>(pc \in {"Written", "Failed"})

\* C20 witness: a run in which a resolution failed and the content of an
\* entry could not be fetched has ended in Written.
TerminationWitness ==
  /\ pc = "Written"
  /\ ShortLink \in answers[ShortLink]
  /\ \E n \in 1..Len(file.items) : file.items[n].processed_links = << >>

(***************************************************************************)
(* Properties of the hook useDeals.                                        *)
(***************************************************************************)
\* C21: for every non-retry fetch, at most retryAttempts retry fetches are
\* started for its failure, whatever refetch calls and interval ticks
\* come in between.
RetryBound == \A l \in 1..MaxFetches : retries[l] <= opts.retryAttempts

\* C22: once cleanup has run, no retry timeout and no refresh interval of
\* the hook is pending, and no request is in flight but aborted ones: the
\* hook starts no request any more.
CleanupComplete ==
  mounted = "gone" =>
    /\ timeouts = {}
    /\ ~interval.active
    /\ \A r \in fetches : r.aborted

\* The request r settles in this step.
Settles(r) == r \in fetches /\ \A q \in fetches' : q.id # r.id

\* The requests in flight that were not aborted.
Live(fs) == { r \in fs : ~r.aborted }

\* C23: at most one request that was not aborted is in flight, and a request
\* whose settling changes deals, error or lastUpdated is the one started
\* last.
LatestRequestWins ==
  [][ /\ Cardinality(Live(fetches')) <= 1
      /\ \A r \in fetches :
           Settles(r) /\ << deals, error, lastUpdated >>' # << deals, error, lastUpdated >>
             => r.id = fetchCount ]_vars

\* A fetch was started while a request was in flight: that request is
\* aborted and the new one is not.
LatestRequestWitness ==
  \E r, q \in fetches : r.aborted /\ ~q.aborted /\ q.id > r.id

\* C24: the settling of an aborted request changes neither error, nor the
\* retry timeouts, nor the retry counter, nor deals, nor lastUpdated.
AbortedSilent ==
  [][ \A r \in fetches :
        Settles(r) /\ r.aborted
          => UNCHANGED << error, timeouts, retryTimeoutRef, retryCountRef, deals,
                          lastUpdated >> ]_vars

\* An aborted request has settled, in a mounted component whose load had
\* failed before.
AbortedWitness ==
  /\ mounted = "yes"
  /\ lastSettled.result = "aborted"
  /\ retryCountRef > 0

\* C25: while a retry timeout is pending or a retry fetch is in flight,
\* loading is true.
LoadingWhileRetrying ==
  mounted = "yes" /\ (timeouts # {} \/ \E r \in Live(fetches) : r.isRetry)
    => loading

\* C26: a fetch that fails changes neither deals nor lastUpdated; a fetch
\* that succeeds sets error to null and the retry counter to 0; and deals
\* is the validated data of the last successful fetch, the empty list if
\* there was none.
KeepsLastGood ==
  [][ /\ mounted' # "gone" => deals' = validDeals(lastGood')
      /\ \A r \in fetches :
           Settles(r) =>
             /\ lastSettled'.result = "failed"
                  => deals' = deals /\ lastUpdated' = lastUpdated
             /\ lastSettled'.result = "ok"
                  => retryCountRef' = 0 /\ (mounted # "gone" => error' = Null) ]_vars

\* A fetch has failed after one had succeeded with deals, and retries are
\* exhausted: the deals are still there, beside the error.
KeepsLastGoodWitness ==
  /\ mounted = "yes"
  /\ lastSettled.result = "failed"
  /\ deals # << >>
  /\ error # Null

(***************************************************************************)
(* Properties of DealGrid and DealCard.                                    *)
(***************************************************************************)
\* How many deals are left by the search.
Remaining == Len(filteredDeals(props.deals, props.searchTerm))

\* C27: DealGrid renders one view: the loading skeleton if loading; else
\* the error state if error is not null; else "No Deals Available" if no
\* deal is left and the search term is empty; else "No Results Found" if no
\* deal is left; else the grid.  No deal is shown while loading or with an
\* error.
ViewPrecedence ==
  grid # << >> =>
    LET view == grid[1].view
        quiet == ~props.loading /\ props.error = Null
    IN  /\ view \in {"LoadingSkeleton", "ErrorState", "NoDealsAvailable",
                     "NoResultsFound", "Grid"}
        /\ props.loading => view = "LoadingSkeleton"
        /\ ~props.loading /\ props.error # Null => view = "ErrorState"
        /\ quiet /\ Remaining = 0 /\ props.searchTerm = << >>
             => view = "NoDealsAvailable"
        /\ quiet /\ Remaining = 0 /\ props.searchTerm # << >>
             => view = "NoResultsFound"
        /\ quiet /\ Remaining > 0 => view = "Grid"
        /\ props.loading \/ props.error # Null => grid[1].shown = << >>

\* DealGrid was rendered with deals, an error and loading at once; and it
\* was rendered with a search term of blanks and no deals.
ViewPrecedenceWitness ==
  /\ grid # << >>
  /\ \/ props.loading /\ props.error # Null /\ props.deals # << >>
     \/ ~props.loading /\ props.error = Null /\ props.deals = << >>
          /\ props.searchTerm = Blank

\* The published of d is a date.
HasDate(d) == ~falsy(d.published) /\ ~isNaN(getTime(d.published))

\* a has a date, and b has none or an older one.
Newer(a, b) ==
  HasDate(a) /\ (HasDate(b) => getTime(a.published) > getTime(b.published))

Sign(n) == IF n > 0 THEN 1 ELSE IF n < 0 THEN -1 ELSE 0

Count(s, d) == Cardinality({ k \in 1..Len(s) : s[k] = d })

PoolDeals == { DealPool[k] : k \in 1..Len(DealPool) }

\* C28: the deals shown are the deals the search left, each as often, and
\* none is shown after a deal it is newer than: newest first, the deals
\* without a date (missing or unparseable) after all others; and the
\* comparator is antisymmetric and transitive.
GridOrdering ==
  /\ \A a, b \in PoolDeals : Sign(compare(a, b)) = -Sign(compare(b, a))
  /\ \A a, b, c \in PoolDeals :
       compare(a, b) <= 0 /\ compare(b, c) <= 0 => compare(a, c) <= 0
  /\ grid # << >> /\ grid[1].view = "Grid" =>
       LET shown == grid[1].shown
           left == filteredDeals(props.deals, props.searchTerm)
       IN  /\ Len(shown) = Len(left)
           /\ \A d \in PoolDeals : Count(shown, d) = Count(left, d)
           /\ \A i, j \in 1..Len(shown) : i < j => ~Newer(shown[j], shown[i])

\* A grid of three deals was rendered, whose deals came in another order:
\* one with a date, one with an unparseable one and one with none.
GridOrderingWitness ==
  /\ grid # << >>
  /\ grid[1].view = "Grid"
  /\ Len(grid[1].shown) = 3
  /\ grid[1].shown # filteredDeals(props.deals, props.searchTerm)
  /\ HasDate(grid[1].shown[1])
  /\ \E k \in 1..3 : grid[1].shown[k].published = "soon"
  /\ \E k \in 1..3 : grid[1].shown[k].published = Null

\* The places of the affiliate links among the links of the card.
AffiliatePlaces == { k \in 1..Len(cardProps.links) : cardProps.links[k].is_affiliate }

\* The place of the j-th affiliate link.
NthPlace(j) ==
  CHOOSE k \in AffiliatePlaces : Cardinality({ i \in AffiliatePlaces : i < k }) = j - 1

\* C29: the card shows the first maxLinks affiliate links, in their order,
\* and no other link; "+N more" is there exactly when there are more than
\* maxLinks affiliate links, N being how many more; the link to the
\* original article is there exactly when there is no affiliate link and
\* originalLink is given.
CardLinkSelection ==
  card # << >> =>
    LET n == Cardinality(AffiliatePlaces)
        m == cardProps.maxLinks
    IN  /\ Len(card[1].links) = IF n < m THEN n ELSE m
        /\ \A j \in 1..Len(card[1].links) :
             card[1].links[j] = cardProps.links[NthPlace(j)]
        /\ card[1].more > 0 <=> n > m
        /\ n > m => card[1].more = n - m
        /\ card[1].article <=> (n = 0 /\ cardProps.originalLink # Undefined)

\* A card was rendered whose links hold more affiliate links than maxLinks,
\* after a link that is none.
CardWitness ==
  /\ card # << >>
  /\ Cardinality(AffiliatePlaces) > cardProps.maxLinks
  /\ ~cardProps.links[1].is_affiliate
  /\ card[1].more > 0

=============================================================================
